---- MODULE Spec2Model ----
(***************************************************************************)
(* Model of internal/wrapper/quic.go: the Session facade over a quic-go    *)
(* connection (OpenStream, OpenUniStream, AcceptStream, AcceptUniStream,   *)
(* Close, CloseWithError), the constructors (Client, Dial, Server, Listen) *)
(* and the configuration builders (getTLSConfig, getDefaultQuicConfig).    *)
(*                                                                         *)
(* Texts are sequences of one-character strings, so that formatting an     *)
(* error and matching a prefix of it are computed, not assumed.            *)
(***************************************************************************)
EXTENDS Integers, Sequences, FiniteSets, Bags, TLC

(* ------------------------------ bounds -------------------------------- *)

\* Streams (of both directions together) one Session opens in a run.
MaxOpens == 3

\* The same in the runs that follow a connection to its closure.
MaxLifeStreams == 1

\* Certificates and private keys a configuration is built from.
MaxCert == 2

\* The largest datagram the two ends agreed on, in bytes.
MaxDatagramLen == 2

\* Datagrams passed to Send in a run.
MaxDatagrams == 2

\* Stand-in for the peer's MaxIncomingStreams / MaxIncomingUniStreams (1000 in
\* getDefaultQuicConfig): the number of streams of one kind a Session may have
\* open at a time, scaled down so that the limit is reached.
StreamLimit == 2

(* --------------------------- program constants ------------------------ *)

\* code is a uint16 (CloseWithError's parameter).
MaxCode == 65535

\* context.WithTimeout(context.Background(), 10*time.Second), in seconds.
AcceptTimeout == 10

\* tls.VersionTLS13 is 0x0304; tls.VersionTLS12 is 0x0303.
VersionTLS13 == 772

\* The deadline of Client's and Dial's handshake, in seconds.
DialTimeout == 10

(* -------------------------------- texts ------------------------------- *)

HexDigits == <<"0","1","2","3","4","5","6","7","8","9","a","b","c","d","e","f">>

\* fmt's %x of a non-negative integer: no padding, lower case.
RECURSIVE Hex(_)
Hex(n) ==
    IF n < 16 THEN <<HexDigits[n + 1]>>
    ELSE Hex(n \div 16) \o <<HexDigits[(n % 16) + 1]>>

\* strings.HasPrefix(s, p)
HasPrefix(s, p) ==
    /\ Len(s) >= Len(p)
    /\ SubSeq(s, 1, Len(p)) = p

TxtApplicationError == <<"A","p","p","l","i","c","a","t","i","o","n"," ","e","r","r","o","r"," ">>
TxtRemote == <<" ","(","r","e","m","o","t","e",")">>
TxtLocal == <<" ","(","l","o","c","a","l",")">>
TxtNil == <<"n","i","l">>
TxtEOF == <<"E","O","F">>
TxtDeadlineExceeded == <<"c","o","n","t","e","x","t"," ","d","e","a","d","l","i","n","e"," ","e","x","c","e","e","d","e","d">>
TxtIdleTimeout == <<"t","i","m","e","o","u","t",":"," ","n","o"," ","r","e","c","e","n","t"," ","n","e","t","w","o","r","k"," ","a","c","t","i","v","i","t","y">>
TxtTooManyStreams == <<"t","o","o"," ","m","a","n","y"," ","o","p","e","n"," ","s","t","r","e","a","m","s">>
TxtNoRemoteAddress == <<"q","u","i","c",":"," ","c","r","e","a","t","i","n","g"," ","c","l","i","e","n","t"," ","w","i","t","h","o","u","t"," ","r","e","m","o","t","e"," ","a","d","d","r","e","s","s">>
TxtHandshake == <<"C","R","Y","P","T","O","_","E","R","R","O","R">>
TxtPionQuic == <<"p","i","o","n","-","q","u","i","c">>

\* Faulty variant: the literal without its last digit, "Application error 0x".
ClosedWithoutErrorPrefix_Short == <<"A","p","p","l","i","c","a","t","i","o","n"," ","e","r","r","o","r"," ","0","x">>

\* The literal AcceptStream and AcceptUniStream match: "Application error 0x0".
ClosedWithoutErrorPrefix == <<"A","p","p","l","i","c","a","t","i","o","n"," ","e","r","r","o","r"," ","0","x","0">>

(* -------------------------------- errors ------------------------------ *)

\* Every error value is a record of the same shape; kind "nil" is Go's nil error.
MkErr(kind, code, msg, remote) ==
    [kind |-> kind, code |-> code, msg |-> msg, remote |-> remote]

NoErr == MkErr("nil", 0, <<>>, FALSE)

\* errors.New(msg), io.EOF: an error that is only a message.
GoError(msg) == MkErr("error", 0, msg, FALSE)

\* io.EOF
EOF == GoError(TxtEOF)

\* *quic.ApplicationError{ErrorCode, ErrorMessage, Remote}
ApplicationError(code, msg, remote) == MkErr("ApplicationError", code, msg, remote)

\* context.DeadlineExceeded, what ctx.Err() is once the deadline passed.
DeadlineExceeded == MkErr("DeadlineExceeded", 0, TxtDeadlineExceeded, FALSE)

\* *quic.IdleTimeoutError: the connection failed without a closure signal.
IdleTimeoutError == MkErr("IdleTimeoutError", 0, TxtIdleTimeout, FALSE)

\* *quic.StreamLimitReachedError
StreamLimitReachedError == MkErr("StreamLimitReachedError", 0, TxtTooManyStreams, FALSE)

\* errClientWithoutRemoteAddress
errClientWithoutRemoteAddress == GoError(TxtNoRemoteAddress)

\* A failed handshake, as quic.Dial / quic.DialAddr report it.
HandshakeError == MkErr("TransportError", 0, TxtHandshake, FALSE)

\* err.Error(). An ApplicationError prints as
\* "Application error %#x (local|remote)" and, with a message, ": <message>".
ErrorText(e) ==
    IF e.kind = "ApplicationError"
    THEN TxtApplicationError \o <<"0", "x">> \o Hex(e.code)
           \o (IF e.remote THEN TxtRemote ELSE TxtLocal)
           \o (IF Len(e.msg) = 0 THEN <<>> ELSE <<":", " ">> \o e.msg)
    ELSE e.msg

(* ------------------------- streams and results ------------------------ *)

Sides == {"client", "server"}

Peer(s) == IF s = "client" THEN "server" ELSE "client"

\* An engine stream: the side that opened it, its direction and its number.
StreamHandle(owner, uni, num) == [owner |-> owner, uni |-> uni, num |-> num]

\* A nil engine stream.
NoStream == StreamHandle("none", FALSE, 0)

\* What an engine call returns: (stream, error).
EngineRet(str, err) == [str |-> str, err |-> err]

\* &Stream{s: str}, &WritableStream{s: str}, &ReadableStream{s: str}
Wrap(type, str) == [type |-> type, s |-> str]

\* A nil *Stream, *WritableStream, *ReadableStream.
Nil == Wrap("nil", NoStream)

\* What a facade call returns: (wrapped stream, error).
Ret(str, err) == [str |-> str, err |-> err]

\* Faulty variant: the engine's error is dropped and its stream wrapped regardless.
OpenStreamResult_IgnoresErr(r) == Ret(Wrap("Stream", r.str), NoErr)

\* The body of Session.OpenStream after the engine call returned r.
OpenStreamResult(r) ==
    IF r.err # NoErr THEN Ret(Nil, r.err)
    ELSE Ret(Wrap("Stream", r.str), NoErr)

\* Faulty variant: the engine's error is returned together with a wrapped stream.
OpenUniStreamResult_WrapsOnErr(r) ==
    IF r.err # NoErr THEN Ret(Wrap("WritableStream", r.str), r.err)
    ELSE Ret(Wrap("WritableStream", r.str), NoErr)

\* The body of Session.OpenUniStream after the engine call returned r.
OpenUniStreamResult(r) ==
    IF r.err # NoErr THEN Ret(Nil, r.err)
    ELSE Ret(Wrap("WritableStream", r.str), NoErr)

\* The body of Session.AcceptStream after the engine call returned r.
AcceptStreamResult(r) ==
    IF r.err # NoErr
    THEN IF HasPrefix(ErrorText(r.err), ClosedWithoutErrorPrefix)
         THEN Ret(Nil, NoErr)
         ELSE Ret(Nil, r.err)
    ELSE Ret(Wrap("Stream", r.str), NoErr)

\* Faulty variant: the unidirectional variant without the closed-without-error case.
AcceptUniStreamResult_NoGraceful(r) ==
    IF r.err # NoErr THEN Ret(Nil, r.err)
    ELSE Ret(Wrap("ReadableStream", r.str), NoErr)

\* The body of Session.AcceptUniStream after the engine call returned r.
AcceptUniStreamResult(r) ==
    IF r.err # NoErr
    THEN IF HasPrefix(ErrorText(r.err), ClosedWithoutErrorPrefix)
         THEN Ret(Nil, NoErr)
         ELSE Ret(Nil, r.err)
    ELSE Ret(Wrap("ReadableStream", r.str), NoErr)

\* Faulty variant: the reason without the substitution for an absent error.
CloseReason_NoNilCase(err) == ErrorText(err)

\* CloseWithError's reason: e := "nil"; if err != nil { e = err.Error() }
CloseReason(err) == IF err # NoErr THEN ErrorText(err) ELSE TxtNil

\* quic.ApplicationErrorCode(code): a uint16 widened to 64 bits keeps its value.
ApplicationErrorCode(code) == code % (MaxCode + 1)

\* The CONNECTION_CLOSE signal of an application closure.
CloseFrame(code, reason) == [code |-> code, reason |-> reason]

NoFrame == [code |-> -1, reason |-> <<>>]

\* The arguments of the closing call that took effect on a Session.
CloseArgs(op, code, err) == [op |-> op, code |-> code, err |-> err]

NoArgs == CloseArgs("none", 0, NoErr)

(* ------------------------------- state --------------------------------- *)

VARIABLES
    closeErr,    \* per side: the engine connection's closure error, NoErr while Established
    closeFrame,  \* per side: the closure signal it sent, in flight to the peer
    closeArgs,   \* per side: the arguments of the Close/CloseWithError that closed it
    opened,      \* per side and direction: streams opened so far (the next stream number)
    completed,   \* per side and direction: opened streams that are finished
    arrived,     \* per side and direction: the peer's streams known to this side
    accepted,    \* per side and direction: the peer's streams handed to Accept calls
    acc,         \* per side: the Accept call in progress
    accLast,     \* per side: what the last Accept call returned
    timedOut,    \* per side: whether an Accept call timed out, and the peer's streams then
    openLast,    \* per side: what the last Open call returned
    handed,      \* per side: the bag of engine streams the Open calls returned
    probe,       \* the closing call whose observation by the peer is examined
    observed,    \* what the peer's Accept calls return for it
    ctor,        \* the last constructor call: its inputs, its effects, its result
    cSent,       \* conduit: the datagrams passed to Send, in order
    cWire,       \* conduit: the bytes written to the connection and not yet readable
    cBuf,        \* conduit: the bytes readable at the receiving end
    cRecv,       \* conduit: what the Receive calls returned, in order
    cClosed      \* conduit: the underlying connection is closed

sessionVars == <<closeErr, closeFrame, closeArgs, opened, completed, arrived,
                 accepted, acc, accLast, timedOut, openLast, handed>>

conduitVars == <<cSent, cWire, cBuf, cRecv, cClosed>>

\* What the operations of a Session leave alone.
others == <<probe, observed, ctor, conduitVars>>

vars == <<sessionVars, others>>

Idle == [pc |-> "idle", uni |-> FALSE, left |-> 0]

Waiting(uni, left) == [pc |-> "waiting", uni |-> uni, left |-> left]

Zero == [s \in Sides |-> [u \in BOOLEAN |-> 0]]

\* No call of the kind has returned yet.
NoCall == Ret(Wrap("none", NoStream), NoErr)

\* No Accept call has timed out yet.
NoTimeout == [seen |-> FALSE, peerOpened |-> [u \in BOOLEAN |-> 0]]

\* The latest timeout of an Accept call, and the streams the peer had opened by then.
TimeoutSeen(peerOpened) == [seen |-> TRUE, peerOpened |-> peerOpened]

\* No closure has been examined yet.
NotObserved == [bidi |-> NoCall, uni |-> NoCall]

(* -------------------------- configuration ------------------------------ *)

\* A nil *x509.Certificate.
NilCert == [Raw |-> 0]

\* *x509.Certificate values, told apart by their Raw bytes.
Certificates == {[Raw |-> n] : n \in 1..MaxCert}

\* Config{Certificate, PrivateKey, SkipVerify}
Config(cert, key, skip) == [Certificate |-> cert, PrivateKey |-> key, SkipVerify |-> skip]

Configs ==
    {Config(c, k, v) : c \in Certificates \cup {NilCert}, k \in 1..MaxCert, v \in BOOLEAN}

\* Faulty variant: skipping verification also admits TLS 1.2.
getTLSConfig_SkipLowersVersion(config) ==
    [MinVersion |-> IF config.SkipVerify THEN VersionTLS13 - 1 ELSE VersionTLS13,
     InsecureSkipVerify |-> config.SkipVerify,
     ClientAuth |-> "RequireAnyClientCert",
     Certificates |-> <<[Certificate |-> <<config.Certificate.Raw>>,
                         PrivateKey |-> config.PrivateKey]>>,
     NextProtos |-> <<TxtPionQuic>>]

\* getTLSConfig; it reads config.Certificate.Raw, so config.Certificate is not nil.
getTLSConfig(config) ==
    [MinVersion |-> VersionTLS13,
     InsecureSkipVerify |-> config.SkipVerify,
     ClientAuth |-> "RequireAnyClientCert",
     Certificates |-> <<[Certificate |-> <<config.Certificate.Raw>>,
                         PrivateKey |-> config.PrivateKey]>>,
     NextProtos |-> <<TxtPionQuic>>]

\* No tls.Config was built.
NoTLS ==
    [MinVersion |-> 0, InsecureSkipVerify |-> FALSE, ClientAuth |-> "NoClientCert",
     Certificates |-> <<>>, NextProtos |-> <<>>]

\* getDefaultQuicConfig; sizes in bytes, the period in seconds.
getDefaultQuicConfig ==
    [MaxIncomingStreams |-> 1000,
     MaxIncomingUniStreams |-> 1000,
     MaxStreamReceiveWindow |-> 3 * 1048576,
     MaxConnectionReceiveWindow |-> (9 * 1048576) \div 2,
     KeepAlivePeriod |-> 15]

\* No quic.Config was built.
NoQuic ==
    [MaxIncomingStreams |-> 0, MaxIncomingUniStreams |-> 0,
     MaxStreamReceiveWindow |-> 0, MaxConnectionReceiveWindow |-> 0,
     KeepAlivePeriod |-> 0]

\* What a constructor returns: a *Session, a *Listener or nil, and an error;
\* kind "panic" is a call that did not return.
CtorRet(kind, err) == [kind |-> kind, err |-> err]

\* A constructor call: the operation, its inputs (whether conn has a remote
\* address, the configuration), its effects (a packet conduit was created
\* over conn, the engine call made and its deadline, the configurations
\* passed to it, bytes moved on conn) and its result.
Called(op, remote, config, conduit, engine, deadline, tls, quic, io, ret) ==
    [op |-> op, remote |-> remote, config |-> config, conduit |-> conduit,
     engine |-> engine, deadline |-> deadline, tls |-> tls, quic |-> quic,
     io |-> io, ret |-> ret]

\* No constructor has been called yet.
NotCalled ==
    Called("none", FALSE, Config(NilCert, 0, FALSE), FALSE, "none", 0, NoTLS,
           NoQuic, FALSE, CtorRet("nil", NoErr))

\* Both Sessions right after a successful handshake.
Init ==
    /\ closeErr = [s \in Sides |-> NoErr]
    /\ closeFrame = [s \in Sides |-> NoFrame]
    /\ closeArgs = [s \in Sides |-> NoArgs]
    /\ opened = Zero
    /\ completed = Zero
    /\ arrived = Zero
    /\ accepted = Zero
    /\ acc = [s \in Sides |-> Idle]
    /\ accLast = [s \in Sides |-> NoCall]
    /\ timedOut = [s \in Sides |-> NoTimeout]
    /\ openLast = [s \in Sides |-> NoCall]
    /\ handed = [s \in Sides |-> EmptyBag]
    /\ probe = NoArgs
    /\ observed = NotObserved
    /\ ctor = NotCalled
    /\ cSent = <<>>
    /\ cWire = <<>>
    /\ cBuf = <<>>
    /\ cRecv = <<>>
    /\ cClosed = FALSE

Established(s) == closeErr[s] = NoErr

(* ------------------------------- engine -------------------------------- *)

\* quic.Conn.OpenStream / OpenUniStream: the closure error once closed, a
\* stream-limit error at the limit, else the next stream of that direction.
EngineOpen(s, uni) ==
    IF closeErr[s] # NoErr THEN EngineRet(NoStream, closeErr[s])
    ELSE IF opened[s][uni] - completed[s][uni] >= StreamLimit
         THEN EngineRet(NoStream, StreamLimitReachedError)
         ELSE EngineRet(StreamHandle(s, uni, opened[s][uni]), NoErr)

\* quic.Conn.AcceptStream / AcceptUniStream has something to return before
\* the deadline: the connection is closed, or a stream of the peer is queued.
AcceptReady(s, uni) ==
    \/ closeErr[s] # NoErr
    \/ accepted[s][uni] < arrived[s][uni]

\* What it returns then: the closure error first, else the next queued stream.
EngineAccept(s, uni) ==
    IF closeErr[s] # NoErr THEN EngineRet(NoStream, closeErr[s])
    ELSE EngineRet(StreamHandle(Peer(s), uni, accepted[s][uni]), NoErr)

\* quic.Conn.CloseWithError(code, reason): the first closure closes the
\* connection and signals the peer; a later one changes nothing.
EngineCloseWithError(s, code, reason) ==
    IF closeErr[s] = NoErr
    THEN /\ closeErr' = [closeErr EXCEPT ![s] = ApplicationError(code, reason, FALSE)]
         /\ closeFrame' = [closeFrame EXCEPT ![s] = CloseFrame(code, reason)]
    ELSE UNCHANGED <<closeErr, closeFrame>>

(* ------------------------------ operations ----------------------------- *)

Bump(f, s, uni) == [f EXCEPT ![s][uni] = @ + 1]

OpenedBy(s) == opened[s][FALSE] + opened[s][TRUE]

\* The bookkeeping of an Open call that returned ret from engine result r.
OpenReturns(s, uni, r, ret) ==
    /\ opened' = IF r.err = NoErr THEN Bump(opened, s, uni) ELSE opened
    /\ openLast' = [openLast EXCEPT ![s] = ret]
    /\ handed' = IF ret.str # Nil
                 THEN [handed EXCEPT ![s] = @ (+) SetToBag({ret.str.s})]
                 ELSE handed

\* Session.OpenStream: one engine call, its result wrapped.
OpenStream(s) ==
    /\ OpenedBy(s) < MaxOpens
    /\ LET r == EngineOpen(s, FALSE) IN
         OpenReturns(s, FALSE, r, OpenStreamResult(r))
    /\ UNCHANGED <<others, closeErr, closeFrame, closeArgs, completed, arrived, accepted,
                   acc, accLast, timedOut>>

\* Session.OpenUniStream
OpenUniStream(s) ==
    /\ OpenedBy(s) < MaxOpens
    /\ LET r == EngineOpen(s, TRUE) IN
         OpenReturns(s, TRUE, r, OpenUniStreamResult(r))
    /\ UNCHANGED <<others, closeErr, closeFrame, closeArgs, completed, arrived, accepted,
                   acc, accLast, timedOut>>

\* The facade's result of an Accept call of either direction.
AcceptResult(uni, r) ==
    IF uni THEN AcceptUniStreamResult(r) ELSE AcceptStreamResult(r)

\* The bookkeeping of an Accept call that returned ret.
AcceptReturns(s, uni, ret) ==
    /\ accLast' = [accLast EXCEPT ![s] = ret]
    /\ timedOut' = IF ret.err = DeadlineExceeded
                   THEN [timedOut EXCEPT ![s] = TimeoutSeen(opened[Peer(s)])]
                   ELSE timedOut
    /\ acc' = [acc EXCEPT ![s] = Idle]

\* Faulty variant: the call waits on a context without deadline.
AcceptCall_NoDeadline(s, uni) ==
    /\ acc[s].pc = "idle"
    /\ acc' = [acc EXCEPT ![s] = Waiting(uni, -1)]
    /\ UNCHANGED <<others, closeErr, closeFrame, closeArgs, opened, completed, arrived,
                   accepted, accLast, timedOut, openLast, handed>>

\* An Accept call starts: ctx gets its own deadline, AcceptTimeout from now,
\* and the engine call begins to wait.
AcceptCall(s, uni) ==
    /\ acc[s].pc = "idle"
    /\ acc' = [acc EXCEPT ![s] = Waiting(uni, AcceptTimeout)]
    /\ UNCHANGED <<others, closeErr, closeFrame, closeArgs, opened, completed, arrived,
                   accepted, accLast, timedOut, openLast, handed>>

\* The engine call returns a stream or the closure error, and the facade
\* classifies it.
AcceptReturn(s, uni) ==
    /\ acc[s].pc = "waiting"
    /\ acc[s].uni = uni
    /\ AcceptReady(s, uni)
    /\ LET r == EngineAccept(s, uni) IN
        /\ accepted' = IF r.err = NoErr THEN Bump(accepted, s, uni) ELSE accepted
        /\ AcceptReturns(s, uni, AcceptResult(uni, r))
    /\ UNCHANGED <<others, closeErr, closeFrame, closeArgs, opened, completed, arrived,
                   openLast, handed>>

\* Faulty variant: on the timeout the facade also closes the Session.
AcceptDeadline_Closes(s, uni) ==
    /\ acc[s] = Waiting(uni, 0)
    /\ ~AcceptReady(s, uni)
    /\ accLast' = [accLast EXCEPT ![s] = AcceptResult(uni, EngineRet(NoStream, DeadlineExceeded))]
    /\ timedOut' = [timedOut EXCEPT ![s] = TimeoutSeen(opened[Peer(s)])]
    /\ acc' = [acc EXCEPT ![s] = Idle]
    /\ EngineCloseWithError(s, 0, TxtEOF)
    /\ UNCHANGED <<others, closeArgs, opened, completed, arrived,
                   accepted, openLast, handed>>

\* The deadline passes with nothing to return: the engine call returns
\* ctx.Err(), and the facade classifies it. The deferred cancel() only
\* releases the context.
AcceptDeadline(s, uni) ==
    /\ acc[s] = Waiting(uni, 0)
    /\ ~AcceptReady(s, uni)
    /\ AcceptReturns(s, uni, AcceptResult(uni, EngineRet(NoStream, DeadlineExceeded)))
    /\ UNCHANGED <<others, closeErr, closeFrame, closeArgs, opened, completed, arrived,
                   accepted, openLast, handed>>

\* Session.AcceptStream
AcceptStream(s) ==
    \/ AcceptCall(s, FALSE)
    \/ AcceptReturn(s, FALSE)
    \/ AcceptDeadline(s, FALSE)

\* Session.AcceptUniStream
AcceptUniStream(s) ==
    \/ AcceptCall(s, TRUE)
    \/ AcceptReturn(s, TRUE)
    \/ AcceptDeadline(s, TRUE)

\* The time left to the nearest deadline of a waiting Accept call.
NextDeadline ==
    LET lefts == {acc[s].left : s \in {x \in Sides : acc[x].pc = "waiting" /\ acc[x].left > 0}}
    IN CHOOSE d \in lefts : \A e \in lefts : d <= e

\* Time passes, up to the nearest deadline of a waiting Accept call: nothing
\* else in the engine or the facade is timed.
Tick ==
    /\ \E s \in Sides : acc[s].pc = "waiting" /\ acc[s].left > 0
    /\ acc' = [s \in Sides |->
                 IF acc[s].pc = "waiting" /\ acc[s].left > 0
                 THEN Waiting(acc[s].uni, acc[s].left - NextDeadline)
                 ELSE acc[s]]
    /\ UNCHANGED <<others, closeErr, closeFrame, closeArgs, opened, completed, arrived,
                   accepted, accLast, timedOut, openLast, handed>>

\* Session.CloseWithError, called as such or by Close (op says which).
CloseWithErrorAs(op, s, code, err) ==
    /\ EngineCloseWithError(s, ApplicationErrorCode(code), CloseReason(err))
    /\ closeArgs' = IF closeErr[s] = NoErr
                    THEN [closeArgs EXCEPT ![s] = CloseArgs(op, code, err)]
                    ELSE closeArgs
    /\ UNCHANGED <<others, opened, completed, arrived, accepted, acc, accLast, timedOut,
                   openLast, handed>>

\* Session.CloseWithError
CloseWithError(s, code, err) == CloseWithErrorAs("CloseWithError", s, code, err)

\* Session.Close: CloseWithError(0, io.EOF)
Close(s) == CloseWithErrorAs("Close", s, 0, EOF)

(* ---------------------------- engine events ---------------------------- *)

\* The closure error of a connection that received the peer's signal f.
ObservedClosure(f) == ApplicationError(f.code, f.reason, TRUE)

\* The peer's closure signal arrives: an Established connection closes with
\* the peer's code and reason; a closed one drops the signal.
CloseArrives(s) ==
    /\ closeFrame[Peer(s)] # NoFrame
    /\ closeErr' = IF closeErr[s] = NoErr
                   THEN [closeErr EXCEPT ![s] = ObservedClosure(closeFrame[Peer(s)])]
                   ELSE closeErr
    /\ closeFrame' = [closeFrame EXCEPT ![Peer(s)] = NoFrame]
    /\ UNCHANGED <<others, closeArgs, opened, completed, arrived, accepted, acc, accLast,
                   timedOut, openLast, handed>>

\* A connection-level failure (no closure signal): the engine fails the session.
ConnectionFails(s) ==
    /\ closeErr[s] = NoErr
    /\ closeErr' = [closeErr EXCEPT ![s] = IdleTimeoutError]
    /\ UNCHANGED <<others, closeFrame, closeArgs, opened, completed, arrived, accepted,
                   acc, accLast, timedOut, openLast, handed>>

\* The first frame of the peer's stream n arrives: that stream and every
\* lower-numbered one of its direction become known to this side.
StreamArrives(s, uni, n) ==
    /\ closeErr[s] = NoErr
    /\ n < opened[Peer(s)][uni]
    /\ n >= arrived[s][uni]
    /\ arrived' = [arrived EXCEPT ![s][uni] = n + 1]
    /\ UNCHANGED <<others, closeErr, closeFrame, closeArgs, opened, completed, accepted,
                   acc, accLast, timedOut, openLast, handed>>

\* A stream this side opened is finished, and the peer grants one more.
StreamCompleted(s, uni) ==
    /\ closeErr[s] = NoErr
    /\ completed[s][uni] < opened[s][uni]
    /\ completed' = Bump(completed, s, uni)
    /\ UNCHANGED <<others, closeErr, closeFrame, closeArgs, opened, arrived, accepted,
                   acc, accLast, timedOut, openLast, handed>>

(* ---------------------------- specification ---------------------------- *)

\* The codes and errors the closing calls are tried with.
Codes == {0, 1}

Errs == {NoErr, EOF}

\* The side whose caller opens streams, and the side whose caller accepts them.
Opener == "client"

Acceptor == "server"

\* The life of a connection: the client opens streams, the server accepts
\* them, either side closes, either side's connection may fail.
Next ==
    \/ OpenedBy(Opener) < MaxLifeStreams /\ OpenStream(Opener)
    \/ OpenedBy(Opener) < MaxLifeStreams /\ OpenUniStream(Opener)
    \/ AcceptStream(Acceptor)
    \/ AcceptUniStream(Acceptor)
    \/ Tick
    \/ \E s \in Sides, code \in Codes, err \in Errs : CloseWithError(s, code, err)
    \/ \E s \in Sides : Close(s)
    \/ \E s \in Sides : CloseArrives(s)
    \/ \E s \in Sides : ConnectionFails(s)
    \/ \E uni \in BOOLEAN, n \in 0..(MaxOpens - 1) : StreamArrives(Acceptor, uni, n)

Spec == Init /\ [][Next]_vars

\* One Established Session used from several callers at once: it opens
\* streams, its streams finish, and it accepts the streams its peer opens.
NextStreams ==
    \/ OpenStream(Opener)
    \/ OpenUniStream(Opener)
    \/ \E uni \in BOOLEAN : StreamCompleted(Opener, uni)
    \/ AcceptStream(Opener)
    \/ AcceptUniStream(Opener)
    \/ Tick
    \/ OpenedBy(Acceptor) < 1 /\ OpenStream(Acceptor)
    \/ OpenedBy(Acceptor) < 1 /\ OpenUniStream(Acceptor)
    \/ \E uni \in BOOLEAN : StreamArrives(Opener, uni, 0)

SpecStreams == Init /\ [][NextStreams]_vars

(* ----------------------------- constructors ---------------------------- *)

\* The engine's answer to a dial or a listen: success or an error.
EngineOutcomes == {NoErr, HandshakeError, DeadlineExceeded}

\* Faulty variant: the remote address is checked after the dial.
Client_DialsFirst(remote, config, outcome) ==
    /\ ctor' =
         IF config.Certificate = NilCert
         THEN Called("Client", remote, config, TRUE, "none", 0, NoTLS, NoQuic,
                     FALSE, CtorRet("panic", NoErr))
         ELSE Called("Client", remote, config, TRUE, "Dial", DialTimeout,
                     getTLSConfig(config), getDefaultQuicConfig, TRUE,
                     IF ~remote THEN CtorRet("nil", errClientWithoutRemoteAddress)
                     ELSE IF outcome # NoErr THEN CtorRet("nil", outcome)
                     ELSE CtorRet("Session", NoErr))
    /\ UNCHANGED <<sessionVars, probe, observed, conduitVars>>

\* Client(conn, config); remote says whether conn.RemoteAddr() is not nil,
\* outcome is what quic.Dial answers. The arguments of quic.Dial are evaluated
\* in order, so the conduit exists when getTLSConfig panics.
Client(remote, config, outcome) ==
    /\ ctor' =
         IF ~remote
         THEN Called("Client", remote, config, FALSE, "none", 0, NoTLS, NoQuic,
                     FALSE, CtorRet("nil", errClientWithoutRemoteAddress))
         ELSE IF config.Certificate = NilCert
         THEN Called("Client", remote, config, TRUE, "none", 0, NoTLS, NoQuic,
                     FALSE, CtorRet("panic", NoErr))
         ELSE Called("Client", remote, config, TRUE, "Dial", DialTimeout,
                     getTLSConfig(config), getDefaultQuicConfig, TRUE,
                     IF outcome # NoErr THEN CtorRet("nil", outcome)
                     ELSE CtorRet("Session", NoErr))
    /\ UNCHANGED <<sessionVars, probe, observed, conduitVars>>

\* Dial(addr, config)
Dial(config, outcome) ==
    /\ ctor' =
         IF config.Certificate = NilCert
         THEN Called("Dial", FALSE, config, FALSE, "none", 0, NoTLS, NoQuic,
                     FALSE, CtorRet("panic", NoErr))
         ELSE Called("Dial", FALSE, config, FALSE, "DialAddr", DialTimeout,
                     getTLSConfig(config), getDefaultQuicConfig, FALSE,
                     IF outcome # NoErr THEN CtorRet("nil", outcome)
                     ELSE CtorRet("Session", NoErr))
    /\ UNCHANGED <<sessionVars, probe, observed, conduitVars>>

\* Server(conn, config); quic.Listen only starts to read conn.
Server(remote, config, outcome) ==
    /\ ctor' =
         IF config.Certificate = NilCert
         THEN Called("Server", remote, config, TRUE, "none", 0, NoTLS, NoQuic,
                     FALSE, CtorRet("panic", NoErr))
         ELSE Called("Server", remote, config, TRUE, "Listen", 0,
                     getTLSConfig(config), getDefaultQuicConfig, outcome = NoErr,
                     IF outcome # NoErr THEN CtorRet("nil", outcome)
                     ELSE CtorRet("Listener", NoErr))
    /\ UNCHANGED <<sessionVars, probe, observed, conduitVars>>

\* Listen(addr, config)
Listen(config, outcome) ==
    /\ ctor' =
         IF config.Certificate = NilCert
         THEN Called("Listen", FALSE, config, FALSE, "none", 0, NoTLS, NoQuic,
                     FALSE, CtorRet("panic", NoErr))
         ELSE Called("Listen", FALSE, config, FALSE, "ListenAddr", 0,
                     getTLSConfig(config), getDefaultQuicConfig, FALSE,
                     IF outcome # NoErr THEN CtorRet("nil", outcome)
                     ELSE CtorRet("Listener", NoErr))
    /\ UNCHANGED <<sessionVars, probe, observed, conduitVars>>

NextConstruct ==
    \/ \E r \in BOOLEAN, c \in Configs, o \in EngineOutcomes : Client(r, c, o)
    \/ \E c \in Configs, o \in EngineOutcomes : Dial(c, o)
    \/ \E r \in BOOLEAN, c \in Configs, o \in {NoErr, HandshakeError} : Server(r, c, o)
    \/ \E c \in Configs, o \in {NoErr, HandshakeError} : Listen(c, o)

SpecConstruct == Init /\ [][NextConstruct]_vars

(* ---------------------------- packet conduit --------------------------- *)

ByteValues == {0, 1}

\* The datagrams within the agreed size.
Datagrams == UNION {[1..n -> ByteValues] : n \in 0..MaxDatagramLen}

\* Faulty variant: the datagram's bytes are written as they are.
Frame_NoLength(d) == d

\* Send's framing: the datagram's length, then its bytes.
Frame(d) == <<Len(d)>> \o d

\* The bytes b start with a complete frame.
HasFrame(b) == Len(b) >= 1 /\ Len(b) >= 1 + b[1]

\* The datagram of the frame b starts with, and the bytes after that frame.
FirstDatagram(b) == SubSeq(b, 2, 1 + b[1])

AfterFrame(b) == SubSeq(b, 2 + b[1], Len(b))

\* What a Receive call returns: a datagram, or the ClosedConduit error.
Received(d) == [data |-> d, err |-> "nil"]

ClosedConduit == [data |-> <<>>, err |-> "ClosedConduit"]

\* Send(d): the frame of d is written to the connection.
Send(d) ==
    /\ ~cClosed
    /\ Len(cSent) < MaxDatagrams
    /\ cSent' = Append(cSent, d)
    /\ cWire' = cWire \o Frame(d)
    /\ UNCHANGED <<sessionVars, probe, observed, ctor, cBuf, cRecv, cClosed>>

\* The connection delivers its next k bytes, in order: a byte stream keeps
\* no boundaries.
Deliver(k) ==
    /\ k \in 1..Len(cWire)
    /\ cBuf' = cBuf \o SubSeq(cWire, 1, k)
    /\ cWire' = SubSeq(cWire, k + 1, Len(cWire))
    /\ UNCHANGED <<sessionVars, probe, observed, ctor, cSent, cRecv, cClosed>>

\* The connection is at end-of-stream for the receiver.
EndOfStream == cClosed /\ cWire = <<>>

\* Receive(): returns the next complete datagram; fails with ClosedConduit
\* at end-of-stream; waits otherwise.
Receive ==
    /\ \/ /\ HasFrame(cBuf)
          /\ cRecv' = Append(cRecv, Received(FirstDatagram(cBuf)))
          /\ cBuf' = AfterFrame(cBuf)
       \/ /\ ~HasFrame(cBuf)
          /\ EndOfStream
          /\ Len(cRecv) <= Len(cSent)
          /\ cRecv' = Append(cRecv, ClosedConduit)
          /\ cBuf' = cBuf
    /\ UNCHANGED <<sessionVars, probe, observed, ctor, cSent, cWire, cClosed>>

\* The owner of the underlying connection closes it; what was written is
\* still delivered.
CloseConnection ==
    /\ ~cClosed
    /\ cClosed' = TRUE
    /\ UNCHANGED <<sessionVars, probe, observed, ctor, cSent, cWire, cBuf, cRecv>>

NextConduit ==
    \/ \E d \in Datagrams : Send(d)
    \/ \E k \in 1..(MaxDatagrams * (MaxDatagramLen + 1)) : Deliver(k)
    \/ Receive
    \/ CloseConnection

SpecConduit == Init /\ [][NextConduit]_vars

(* -------------------- every code, from call to Accept ------------------- *)

\* The errors the examined closing call is tried with.
SweepErrs == {NoErr, EOF, GoError(<<>>)}

\* The peer calls CloseWithError(probe.code, probe.err) (or Close), the signal
\* arrives, and an AcceptStream and an AcceptUniStream call return.
ObserveClosure ==
    /\ observed = NotObserved
    /\ \E code \in 0..MaxCode, err \in SweepErrs :
         LET f == CloseFrame(ApplicationErrorCode(code), CloseReason(err))
             r == EngineRet(NoStream, ObservedClosure(f))
         IN /\ probe' = CloseArgs("CloseWithError", code, err)
            /\ observed' = [bidi |-> AcceptStreamResult(r),
                            uni |-> AcceptUniStreamResult(r)]
    /\ UNCHANGED <<sessionVars, ctor, conduitVars>>

\* The examination starts over.
ForgetClosure ==
    /\ observed # NotObserved
    /\ probe' = NoArgs
    /\ observed' = NotObserved
    /\ UNCHANGED <<sessionVars, ctor, conduitVars>>

NextCodes == ObserveClosure \/ ForgetClosure

SpecCodes == Init /\ [][NextCodes]_vars

\* The scheduler runs a returning call, timers fire and time passes: a waiting
\* Accept call whose engine call can return does return.
FairSpec ==
    /\ Spec
    /\ WF_vars(Tick)
    /\ \A s \in Sides, uni \in BOOLEAN :
         WF_vars(AcceptReturn(s, uni) \/ AcceptDeadline(s, uni))

(* ------------------------------- claims -------------------------------- *)

\* An Accept call of side s returns in this step.
AcceptReturnsStep(s) == acc[s].pc = "waiting" /\ acc'[s].pc = "idle"

\* An Accept call of side s starts in this step.
AcceptStartsStep(s) == acc[s].pc = "idle" /\ acc'[s].pc = "waiting"

\* Side s has received the closure its peer signalled with a call of code 0.
ClosedByPeerWithZero(s) ==
    /\ closeErr[s].kind = "ApplicationError"
    /\ closeErr[s].remote
    /\ closeArgs[Peer(s)].op # "none"
    /\ closeArgs[Peer(s)].code = 0

\* C1: once the closure of a peer that closed with code 0 (Close, or
\* CloseWithError(0, r) for any r, absent or not) has arrived, every Accept
\* call of either direction that returns, whether it was waiting when the
\* closure arrived or started later, returns (nil, nil).
C1_GracefulClosureIsNoError ==
    [][\A s \in Sides :
         (AcceptReturnsStep(s) /\ ClosedByPeerWithZero(s))
             => accLast'[s] = Ret(Nil, NoErr)]_vars

\* C1's case: the peer called CloseWithError(0, nil) and an Accept call
\* returned (nil, nil) after the closure arrived.
C1_Witness ==
    \E s \in Sides :
        /\ ClosedByPeerWithZero(s)
        /\ closeArgs[Peer(s)] = CloseArgs("CloseWithError", 0, NoErr)
        /\ accLast[s] = Ret(Nil, NoErr)

\* The reason CloseWithError is to signal for err: its message, "nil" if absent.
ExpectedReason(err) == IF err = NoErr THEN TxtNil ELSE err.msg

\* C8: the closure a Session signals carries exactly the code and the reason
\* of the call that closed it ("nil" for an absent error), in the connection,
\* in the signal in flight and in what the peer observes; and Close() is a
\* closure with code 0 and reason "EOF".
C8_CloseSignalsCodeAndReason ==
    \A s \in Sides :
        closeArgs[s].op # "none" =>
            LET a == closeArgs[s]
                e == ApplicationError(a.code, ExpectedReason(a.err), FALSE)
                f == CloseFrame(a.code, ExpectedReason(a.err))
                o == ApplicationError(a.code, ExpectedReason(a.err), TRUE)
            IN /\ closeErr[s] = e
               /\ closeFrame[s] \in {f, NoFrame}
               /\ closeErr[Peer(s)].remote => closeErr[Peer(s)] = o
               /\ a.op = "Close" => a.code = 0 /\ ExpectedReason(a.err) = TxtEOF

\* C8's case: CloseWithError(1, nil) was called and the peer observed code 1
\* with the reason "nil", and the other way round a Close() was observed as
\* code 0 with reason "EOF".
C8_Witness ==
    \E s \in Sides :
        /\ closeArgs[s] = CloseArgs("CloseWithError", 1, NoErr)
        /\ closeErr[Peer(s)] = ApplicationError(1, TxtNil, TRUE)

\* C5: a Session that is not Established stays so with the same closure
\* error, hands out no stream from then on, and every Open or Accept call that
\* returns on it returns no stream (an error, or (nil, nil) from Accept).
C5_ClosureIsTerminal ==
    [][\A s \in Sides :
         closeErr[s] # NoErr =>
             /\ closeErr'[s] = closeErr[s]
             /\ handed'[s] = handed[s]
             /\ opened'[s] = opened[s]
             /\ accepted'[s] = accepted[s]
             /\ AcceptReturnsStep(s) => accLast'[s].str = Nil
             /\ openLast'[s] # openLast[s] =>
                    openLast'[s].str = Nil /\ openLast'[s].err # NoErr]_vars

\* C5's case: an Open call failed on a closed Session and an Accept call
\* returned without a stream on a closed Session.
C5_Witness ==
    /\ closeErr[Opener] # NoErr
    /\ openLast[Opener] = Ret(Nil, closeErr[Opener])
    /\ closeErr[Acceptor] # NoErr
    /\ accLast[Acceptor] \in {Ret(Nil, NoErr), Ret(Nil, closeErr[Acceptor])}

\* C10: an Accept call that returns the timeout error changes nothing of the
\* Session or the connection (no closure, no signal, no stream opened,
\* accepted or lost), and every Accept call starts with the full wait.
C10_TimeoutLeavesSessionUnchanged ==
    [][\A s \in Sides :
         /\ (AcceptReturnsStep(s) /\ accLast'[s].err = DeadlineExceeded) =>
                UNCHANGED <<closeErr, closeFrame, closeArgs, opened, completed,
                            arrived, accepted, openLast, handed>>
         /\ AcceptStartsStep(s) => acc'[s].left = AcceptTimeout]_vars

\* C10's case: after an Accept call timed out, a later Accept call on the
\* still Established Session returned a stream the peer opened after that.
C10_Witness ==
    \E s \in Sides :
        /\ timedOut[s].seen
        /\ closeErr[s] = NoErr
        /\ accLast[s].str # Nil
        /\ accLast[s].str.s.num >= timedOut[s].peerOpened[accLast[s].str.s.uni]

\* C3: every waiting Accept call returns; and a call that returns while no
\* stream is queued and the connection is not closed returns at its deadline,
\* AcceptTimeout after it started, with the timeout error, which is neither
\* (nil, nil) nor a closure or connection error.
C3_AcceptReturnsByDeadline ==
    /\ \A s \in Sides : (acc[s].pc = "waiting") ~> (acc[s].pc = "idle")
    /\ [][\A s \in Sides :
            (AcceptReturnsStep(s) /\ ~AcceptReady(s, acc[s].uni)) =>
                /\ acc[s].left = 0
                /\ accLast'[s] = Ret(Nil, DeadlineExceeded)
                /\ accLast'[s].err \notin {NoErr, IdleTimeoutError}
                /\ accLast'[s].err.kind # "ApplicationError"]_vars

\* C3's case: an Accept call returned the timeout error.
C3_Witness ==
    \E s \in Sides :
        /\ acc[s].pc = "idle"
        /\ accLast[s] = Ret(Nil, DeadlineExceeded)
        /\ closeErr[s] = NoErr

\* The facade's result of an Open call of either direction.
OpenResult(uni, r) ==
    IF uni THEN OpenUniStreamResult(r) ELSE OpenStreamResult(r)

OpenType(uni) == IF uni THEN "WritableStream" ELSE "Stream"

\* The streams of direction uni that side s has open.
OpenCount(s, uni) == opened[s][uni] - completed[s][uni]

\* C6: on an Established Session the Open calls have returned each stream of
\* the Session exactly once; no more than StreamLimit streams of a direction
\* are open; an Open call made now returns a stream no call returned before
\* if fewer than StreamLimit are open and fails with the stream-limit error
\* otherwise; and a waiting Accept call does not keep OpenStream from running.
C6_OpensAreDistinctUpToLimit ==
    \A s \in Sides :
        /\ handed[s] = SetToBag({StreamHandle(s, p[1], p[2]) :
                                   p \in {q \in BOOLEAN \X (0..(MaxOpens - 1)) :
                                            q[2] < opened[s][q[1]]}})
        /\ \A h \in BagToSet(handed[s]) : CopiesIn(h, handed[s]) = 1
        /\ \A u \in BOOLEAN :
            /\ OpenCount(s, u) <= StreamLimit
            /\ Established(s) =>
                 LET ret == OpenResult(u, EngineOpen(s, u)) IN
                   IF OpenCount(s, u) < StreamLimit
                   THEN /\ ret = Ret(Wrap(OpenType(u), StreamHandle(s, u, opened[s][u])), NoErr)
                        /\ ~BagIn(ret.str.s, handed[s])
                   ELSE ret = Ret(Nil, StreamLimitReachedError)
        /\ (acc[s].pc = "waiting" /\ OpenedBy(s) < MaxOpens) =>
               ENABLED OpenStream(s)

\* C6's case: StreamLimit streams of one direction are open, each returned
\* by its own call, the next Open call failed with the stream-limit error,
\* and an Accept call is waiting meanwhile.
C6_Witness ==
    /\ OpenCount(Opener, FALSE) = StreamLimit
    /\ BagCardinality(handed[Opener]) >= StreamLimit
    /\ openLast[Opener] = Ret(Nil, StreamLimitReachedError)
    /\ acc[Opener].pc = "waiting"

\* C2: a closure the peer signals with a nonzero code c and any reason is
\* observed by AcceptStream and by AcceptUniStream as (nil, error), the error
\* being the application error with code c and that reason; it is never
\* (nil, nil), and its text does not start with "Application error 0x0".
C2_NonzeroClosureIsAnError ==
    (observed # NotObserved /\ probe.code # 0) =>
        LET e == ApplicationError(probe.code, ExpectedReason(probe.err), TRUE) IN
            /\ observed.bidi = Ret(Nil, e)
            /\ observed.uni = Ret(Nil, e)
            /\ e # NoErr
            /\ ~HasPrefix(ErrorText(e), ClosedWithoutErrorPrefix)

\* C2's case: the closure CloseWithError(0x0a00, nil), whose code has zero
\* digits after the first, was observed as an error with that code.
C2_Witness ==
    /\ probe = CloseArgs("CloseWithError", 2560, NoErr)
    /\ observed.bidi.str = Nil
    /\ observed.bidi.err.code = 2560
    /\ observed.uni.err.msg = TxtNil

\* The configuration with the other value of SkipVerify.
FlipSkipVerify(config) == [config EXCEPT !.SkipVerify = ~config.SkipVerify]

\* C7: the TLS parameters a constructor hands to the engine require TLS 1.3
\* or later and a client certificate from the peer, present this endpoint's
\* certificate and key, and offer "pion-quic", whatever SkipVerify is; the
\* flag decides InsecureSkipVerify and no other field.
C7_TLSParametersWhateverSkipVerify ==
    ctor.engine # "none" =>
        /\ ctor.tls.MinVersion >= VersionTLS13
        /\ ctor.tls.ClientAuth = "RequireAnyClientCert"
        /\ ctor.tls.Certificates =
               <<[Certificate |-> <<ctor.config.Certificate.Raw>>,
                  PrivateKey |-> ctor.config.PrivateKey]>>
        /\ ctor.config.Certificate # NilCert
        /\ ctor.tls.NextProtos = <<TxtPionQuic>>
        /\ ctor.tls.InsecureSkipVerify = ctor.config.SkipVerify
        /\ ctor.tls = [getTLSConfig(FlipSkipVerify(ctor.config))
                         EXCEPT !.InsecureSkipVerify = ctor.config.SkipVerify]

\* C7's case: a constructor built the parameters with verification skipped.
C7_Witness ==
    /\ ctor.engine = "Listen"
    /\ ctor.config.SkipVerify
    /\ ctor.tls.InsecureSkipVerify
    /\ ctor.tls.MinVersion = VersionTLS13

\* C4: Client on a connection without remote address returns no Session and
\* errClientWithoutRemoteAddress, having created no packet conduit, built no
\* configuration, called no engine function and moved no byte on conn.
C4_ClientWithoutRemoteAddress ==
    (ctor.op = "Client" /\ ~ctor.remote) =>
        /\ ctor.ret = CtorRet("nil", errClientWithoutRemoteAddress)
        /\ ErrorText(ctor.ret.err) = TxtNoRemoteAddress
        /\ ~ctor.conduit
        /\ ctor.engine = "none"
        /\ ctor.tls = NoTLS
        /\ ctor.quic = NoQuic
        /\ ~ctor.io

\* C4's case: Client was called without remote address, with a configuration
\* whose certificate is nil, and returned the error.
C4_Witness ==
    /\ ctor.op = "Client"
    /\ ~ctor.remote
    /\ ctor.config.Certificate = NilCert
    /\ ctor.ret.err = errClientWithoutRemoteAddress

\* The datagrams a byte sequence made of complete frames holds, in order.
RECURSIVE Unframe(_)
Unframe(b) ==
    IF HasFrame(b) THEN <<FirstDatagram(b)>> \o Unframe(AfterFrame(b)) ELSE <<>>

\* The datagrams the Receive calls returned, in order.
RECURSIVE ReceivedDatagrams(_)
ReceivedDatagrams(r) ==
    IF r = <<>> THEN <<>>
    ELSE (IF Head(r).err = "nil" THEN <<Head(r).data>> ELSE <<>>)
           \o ReceivedDatagrams(Tail(r))

\* C9: the datagrams Receive returned, followed by those still framed in the
\* connection, are the datagrams passed to Send, in order and with their
\* boundaries; Receive waits while no complete frame is readable and the
\* connection is not at end-of-stream; it returns ClosedConduit only at
\* end-of-stream with no complete frame left.
C9_ConduitRoundTrip ==
    /\ ReceivedDatagrams(cRecv) \o Unframe(cBuf \o cWire) = cSent
    /\ (~HasFrame(cBuf) /\ ~EndOfStream) => ~ENABLED Receive
    /\ \A i \in 1..Len(cRecv) :
         cRecv[i] = ClosedConduit =>
             /\ cClosed
             /\ \A j \in i..Len(cRecv) : cRecv[j] = ClosedConduit
             /\ Len(ReceivedDatagrams(cRecv)) = Len(cSent)

\* C9's case: an empty datagram and one of the agreed size, whose bytes look
\* like lengths, were sent and received, then Receive failed on the closed
\* connection.
C9_Witness ==
    /\ cSent = <<<<>>, <<1, 0>>>>
    /\ cRecv = <<Received(<<>>), Received(<<1, 0>>), ClosedConduit>>

====
